---- MODULE Spec2Model ----
(***************************************************************************)
(* A model of the atomic coordination core of lfring: pointer tagging,     *)
(* slice-slot compare-and-swap and the RDCSS descriptor protocol.          *)
(*                                                                         *)
(* Pointers are natural numbers below 2^PtrBits; the tag lives in the      *)
(* low-order bits exactly as in the Go code, so tagging, untagging and     *)
(* descriptor recognition are computed with the same bit operations.       *)
(***************************************************************************)
EXTENDS Naturals, Sequences, FiniteSets

VARIABLES
    uintptrBits,  \* width of uintptr on the build: 32 or 64
    tg,           \* the pointer-tagging driver: inputs, position, results
    mem,          \* shared words: the slots of the slice and the control word
    pc,           \* pc[t]: where thread t stands in its RDCSS call
    d,            \* d[t]: the rdcssDescriptor thread t allocated for its call
    calls,        \* calls[t]: RDCSS calls thread t has started
    ret,          \* ret[t]: what thread t's last finished call returned
    obs,          \* obs[t]: history of thread t's current call (see NoObs)
    lastN,        \* history: the new value of the latest committed call
    pre,          \* history: the latest call's arguments and the words it found
    hs,           \* history: what became of each descriptor (see NoHs)
    tries,        \* tries[t]: SetSliceSlot calls thread t has made
    sl,           \* history of the SetSliceSlot calls (see NoSl)
    cs,           \* history of the CASSliceSlot calls (see NoCs)
    rp            \* the roundP2 driver: input, position, result

vars == <<uintptrBits, tg, mem, pc, d, calls, ret, obs, lastN, pre, hs, tries, sl, cs, rp>>

slotVars == <<tries, sl, cs>>

rdcssVars == <<mem, pc, d, calls, ret, obs, lastN, pre, hs>>

utilVars == <<rp>>

\* ------------------------------------------------------------------ bounds

\* Width of the pointers of the model (the low PtrBits bits of a uintptr).
PtrBits == 7

\* Tags handed to TaggedPointer range over 0..MaxTagIn.
MaxTagIn == 8

\* Threads calling RDCSS concurrently.
NumThreads == 2

\* SetSliceSlot calls each thread makes.
MaxAttempts == 2

\* RDCSS calls each thread makes.
MaxCalls == 1

\* Distinct user objects whose addresses are stored in the data word.
NumVals == 2

\* Slots of the slice.
NumSlots == 3

\* Inputs of roundP2 have at most MaxBitsSet one-bits, or are all ones from
\* bit 0 up to some bit.
MaxBitsSet == 2

\* ---------------------------------------------------------- bit operations

RECURSIVE BitAnd(_, _)
\* Go's x & y on unsigned words.
BitAnd(x, y) ==
    IF x = 0 \/ y = 0 THEN 0
    ELSE (x % 2) * (y % 2) + 2 * BitAnd(x \div 2, y \div 2)

RECURSIVE BitOr(_, _)
\* Go's x | y on unsigned words.
BitOr(x, y) ==
    IF x = 0 THEN y
    ELSE IF y = 0 THEN x
    ELSE (IF x % 2 = 1 \/ y % 2 = 1 THEN 1 ELSE 0) + 2 * BitOr(x \div 2, y \div 2)

\* Go's ^uintptr(x), kept to the PtrBits low-order bits of the word.
BitNot(x) == (2 ^ PtrBits - 1) - x

\* Every pointer value of the model.
Pointers == 0 .. (2 ^ PtrBits - 1)

\* --------------------------------------------- architecture configuration

\* base.go: archADDRSIZE = 32 << uintptr(^uintptr(0)>>63).  ^uintptr(0)>>63
\* is 1 when uintptr has 64 bits and 0 when it has 32.
archADDRSIZE == 32 * (2 ^ (IF uintptrBits > 63 THEN 1 ELSE 0))

\* base.go: archWORDSIZE = archADDRSIZE >> 3
archWORDSIZE == archADDRSIZE \div 8

\* base.go: archMAXTAG = archWORDSIZE - 1
archMAXTAG == archWORDSIZE - 1

\* base.go: archPTRMASK = ^uintptr((archADDRSIZE >> 5) + 1)
archPTRMASK == BitNot((archADDRSIZE \div 32) + 1)

\* base.go: archPTRSIZE = unsafe.Sizeof(_PTR_)
archPTRSIZE == uintptrBits \div 8

\* ------------------------------------------------------- pointer tagging

\* GetTag returns the tag value from the low-order bits.
GetTag(ptr) == BitAnd(ptr, archMAXTAG)

\* Mutant: the tag is attached without the range check.
TaggedPointerUnchecked(ptr, tag) ==
    [panicked |-> FALSE, ptr |-> BitOr(ptr, tag), err |-> "nil"]

\* TaggedPointer panics with EPTRINVALT when tag > archMAXTAG and otherwise
\* returns ptr | tag with a nil error.
TaggedPointer(ptr, tag) ==
    IF tag > archMAXTAG
    THEN [panicked |-> TRUE, ptr |-> 0, err |-> "EPTRINVALT"]
    ELSE [panicked |-> FALSE, ptr |-> BitOr(ptr, tag), err |-> "nil"]

\* Untag masks the pointer with archPTRMASK.
Untag(ptr) == BitAnd(ptr, archPTRMASK)

\* HasTag: GetTag(ptr) & archMAXTAG > 0.
HasTag(ptr) == BitAnd(GetTag(ptr), archMAXTAG) > 0

\* IsRDCSSDescriptor is HasTag.
IsRDCSSDescriptor(addr) == HasTag(addr)

\* ----------------------------------------------------------- memory layout

\* The nil pointer.
nil == 0

\* Data pointer of the slice header (the word CASSliceSlot reads at addr).
SliceBase == 8

\* The slice of slots, as its header.
nodes == [data |-> SliceBase, len |-> NumSlots]

\* OffsetSliceSlot: data pointer of the slice plus index times ptrsize.
OffsetSliceSlot(addr, index, ptrsize) == addr.data + ptrsize * index

\* Addresses of the slots of the slice.
SlotAddrs == {OffsetSliceSlot(nodes, i, archPTRSIZE) : i \in 0 .. NumSlots - 1}

\* Address of the control word (a counter or cursor beside the slice).
CtlAddr == SliceBase + 8 * NumSlots

\* The shared words of the model.
MemAddrs == SlotAddrs \cup {CtlAddr}

\* Addresses of the user objects the data word points to.
ValBase == CtlAddr + 8
UserVals == {ValBase + 8 * (i - 1) : i \in 1 .. NumVals}

\* What the data word holds outside an RDCSS call.
DataVals == {nil} \cup UserVals

\* Value of the control word in TestRDCSS (counter: 16), and one other value.
InitCtl == 16
CtlVals == {0, InitCtl}

Threads == 1 .. NumThreads

\* Heap addresses of the descriptors: a fresh, word-aligned one per call.
DescBase == ValBase + 8 * NumVals
DescAddr(t, c) == DescBase + 8 * ((t - 1) * MaxCalls + (c - 1))
DescAddrs == {DescAddr(t, c) : t \in Threads, c \in 1 .. MaxCalls}

\* Slot index used as the data address in TestRDCSS2.
DataIndex == 1

\* The control address a1 and the data address a2 of the RDCSS calls.
A1 == CtlAddr
A2 == OffsetSliceSlot(nodes, DataIndex, archPTRSIZE)

\* ------------------------------------------------------------------ atomics

\* Mutant: a plain store where the compare-and-swap belongs.
CompareAndSwapPointerStore(m, addr, old, new) ==
    [ok |-> TRUE, mem |-> [m EXCEPT ![addr] = new]]

\* atomic.CompareAndSwapPointer(addr, old, new) on memory m.
CompareAndSwapPointer(m, addr, old, new) ==
    IF m[addr] = old
    THEN [ok |-> TRUE, mem |-> [m EXCEPT ![addr] = new]]
    ELSE [ok |-> FALSE, mem |-> m]

\* Mutant: the index is left out of the slot address.
CASSliceSlotNoOffset(m, addr, data, target, index, ptrsize) ==
    CompareAndSwapPointer(m, addr.data, target, data)

\* CASSliceSlot: find the slot at the slice's data pointer plus index times
\* ptrsize and run atomic.CompareAndSwapPointer(slot, target, data) on it.
CASSliceSlot(m, addr, data, target, index, ptrsize) ==
    CompareAndSwapPointer(m, addr.data + ptrsize * index, target, data)

\* Mutant: nil and d handed to CASSliceSlot in the other order.
SetSliceSlotSwapped(m, addr, index, ptrsize, dd) ==
    CompareAndSwapPointer(m, addr.data + ptrsize * index, dd, nil)

\* SetSliceSlot: CASSliceSlot(addr, d, nil, index, ptrsize).
SetSliceSlot(m, addr, index, ptrsize, dd) ==
    CASSliceSlot(m, addr, dd, nil, index, ptrsize)

SlotIndexes == 0 .. NumSlots - 1

\* History of the SetSliceSlot calls: the latest call (its index, its value,
\* what it returned, the memory it found), per slot the number of calls that
\* returned true and the value of the latest of them, the indexes tried so
\* far, and how many calls returned true and false.
NoSl == [called |-> FALSE, idx |-> 0, val |-> nil, ok |-> FALSE, before |-> <<>>,
         wins |-> [i \in SlotIndexes |-> 0], owner |-> [i \in SlotIndexes |-> nil],
         att |-> {}, ntrue |-> 0, nfalse |-> 0]

\* History of the CASSliceSlot calls: how many were made and the latest one
\* (its index, its data and target arguments, what it returned, the memory it
\* found).
NoCs == [n |-> 0, idx |-> 0, data |-> nil, target |-> nil, ok |-> FALSE,
         before |-> <<>>]

SlotsIdle ==
    /\ tries = [t \in Threads |-> 0]
    /\ sl = NoSl
    /\ cs = NoCs

\* A caller calls CASSliceSlot(&nodes, data, target, index, archPTRSIZE).
CallCASSliceSlot(index, data, target) ==
    /\ cs.n < MaxAttempts
    /\ \E r \in {CASSliceSlot(mem, nodes, data, target, index, archPTRSIZE)} :
          /\ mem' = r.mem
          /\ cs' = [n |-> cs.n + 1, idx |-> index, data |-> data,
                    target |-> target, ok |-> r.ok, before |-> mem]
    /\ UNCHANGED <<tries, sl>>

\* A thread calls SetSliceSlot(&nodes, index, archPTRSIZE, v).
CallSetSliceSlot(t, index, v) ==
    /\ tries[t] < MaxAttempts
    /\ tries' = [tries EXCEPT ![t] = @ + 1]
    /\ \E r \in {SetSliceSlot(mem, nodes, index, archPTRSIZE, v)} :
          /\ mem' = r.mem
          /\ sl' = [called |-> TRUE, idx |-> index, val |-> v, ok |-> r.ok,
                    before |-> mem,
                    wins |-> [sl.wins EXCEPT ![index] = IF r.ok THEN @ + 1 ELSE @],
                    owner |-> [sl.owner EXCEPT ![index] = IF r.ok THEN v ELSE @],
                    att |-> sl.att \cup {index},
                    ntrue |-> IF r.ok THEN sl.ntrue + 1 ELSE sl.ntrue,
                    nfalse |-> IF r.ok THEN sl.nfalse ELSE sl.nfalse + 1]

\* ------------------------------------------------------------------ utility
\* A uint64 is the set of the positions of its one-bits, bit 0 the lowest.

\* Width of roundP2's argument and result.
Uint64Bits == 64

BitPos == 0 .. Uint64Bits - 1

\* The lowest position in a non-empty set of positions.
LowestBit(S) == CHOOSE m \in S : \A x \in S : m <= x

\* v-- on uint64: 0 wraps to 2^64 - 1.
Dec64(v) ==
    IF v = {} THEN BitPos
    ELSE LET m == LowestBit(v) IN (v \ {m}) \cup {i \in BitPos : i < m}

\* v++ on uint64: 2^64 - 1 wraps to 0.
Inc64(v) ==
    IF v = BitPos THEN {}
    ELSE LET z == LowestBit(BitPos \ v) IN {i \in v : i > z} \cup {z}

\* v >> k on uint64.
Shr64(v, k) == {i - k : i \in {j \in v : j >= k}}

\* v | w on uint64.
Or64(v, w) == v \cup w

\* roundP2: v--, v |= v >> 1, 2, 4, 8, 16, 32, v++.
roundP2(v) ==
    LET v0 == Dec64(v)
        v1 == Or64(v0, Shr64(v0, 1))
        v2 == Or64(v1, Shr64(v1, 2))
        v3 == Or64(v2, Shr64(v2, 4))
        v4 == Or64(v3, Shr64(v3, 8))
        v5 == Or64(v4, Shr64(v4, 16))
        v6 == Or64(v5, Shr64(v5, 32))
    IN  Inc64(v6)

RECURSIVE WordsWith(_)
\* The uint64 values with at most k one-bits.
WordsWith(k) ==
    IF k = 0 THEN {{}}
    ELSE LET W == WordsWith(k - 1) IN W \cup {w \cup {i} : w \in W, i \in BitPos}

\* The inputs handed to roundP2.
RoundInputs == WordsWith(MaxBitsSet) \cup {{j \in BitPos : j <= i} : i \in BitPos}

NoRp == [pc |-> "start", v |-> {}, r |-> {}]

UtilIdle == rp = NoRp

\* roundP2 called on the input v.
CallRoundP2 ==
    /\ rp.pc = "start"
    /\ rp' = [rp EXCEPT !.pc = "done", !.r = roundP2(rp.v)]
    /\ UNCHANGED <<uintptrBits, tg, rdcssVars, slotVars>>

\* -------------------------------------------------------------------- RDCSS

\* rdcssDescriptor, with the heap address it was allocated at.  A thread that
\* is not inside a call holds no descriptor.
NoDesc == [addr |-> nil, a1 |-> nil, o1 |-> nil, a2 |-> nil, o2 |-> nil, n |-> nil]

\* History of a call: seen (the control value its completion read), act (the
\* data word held its descriptor at that read), chg (the control word was set
\* to a value other than o1 while the descriptor was installed and the call had
\* not returned), fate (how the call ended: "aborted" when its install CAS
\* failed, "committed" or "rolledback" by the CAS that took its descriptor out
\* of the data word, "lost" when its restoration CAS failed).
NoObs == [seen |-> nil, act |-> FALSE, chg |-> FALSE, fate |-> "none"]

\* What stays of a call's history once it has returned.
Returned(fate) == [NoObs EXCEPT !.fate = fate]

\* The data word before any call.
InitData == nil

\* History of the descriptors, by heap address: how[a] tells whether the
\* descriptor at a is "active" (installed in the data word), "committed" or
\* "rolledback" ("none" before its install), and by[a] which thread's CAS took
\* it out of the data word (0 until then).
NoHs == [how |-> [a \in DescAddrs |-> "none"], by |-> [a \in DescAddrs |-> 0]]

RdcssIdle ==
    /\ pc = [t \in Threads |-> "idle"]
    /\ d = [t \in Threads |-> NoDesc]
    /\ calls = [t \in Threads |-> 0]
    /\ ret = [t \in Threads |-> FALSE]
    /\ obs = [t \in Threads |-> NoObs]
    /\ hs = NoHs

\* pre before any call: v1 and v2 are the control and the data word, o1 and o2
\* the expected values handed to RDCSS, n[t] the new value thread t handed in.
NoPre == [v1 |-> nil, v2 |-> nil, o1 |-> nil, o2 |-> nil,
          n |-> [t \in Threads |-> nil]]

\* The descriptor a pointer refers to; memory that holds no descriptor reads
\* as zeroes.
Deref(p) ==
    IF \E u \in Threads : d[u].addr = p /\ p # nil
    THEN d[CHOOSE u \in Threads : d[u].addr = p]
    ELSE NoDesc

\* Mutant: the call goes on to RDCSSComplete whatever the install CAS returned.
RDCSSInstallIgnored(t, a1, o1, a2, o2, n) ==
    /\ pc[t] \in {"idle", "done"}
    /\ calls[t] < MaxCalls
    /\ LET desc == [addr |-> DescAddr(t, calls[t] + 1),
                    a1 |-> a1, o1 |-> o1, a2 |-> a2, o2 |-> o2, n |-> n]
           dptr == TaggedPointer(desc.addr, 1).ptr
       IN  \E cas \in {CompareAndSwapPointer(mem, desc.a2, desc.o2, dptr)} :
              /\ mem' = cas.mem
              /\ d' = [d EXCEPT ![t] = desc]
              /\ calls' = [calls EXCEPT ![t] = @ + 1]
              /\ pc' = [pc EXCEPT ![t] = "read"]
              /\ ret' = [ret EXCEPT ![t] = FALSE]
              /\ obs' = [obs EXCEPT ![t] = NoObs]
    /\ UNCHANGED lastN

\* Thread u holds a descriptor (it is inside RDCSSComplete).
InFlightDesc(u) == pc[u] \in {"read", "commit", "rollback"}

\* RDCSS up to its install CAS: allocate the descriptor, tag its address with
\* 0x1 and CAS the data word from o2 to the tagged address.  When the CAS
\* succeeds the call goes on to RDCSSComplete; when it fails the call returns
\* false.
RDCSS(t, a1, o1, a2, o2, n) ==
    /\ pc[t] \in {"idle", "done"}
    /\ calls[t] < MaxCalls
    /\ LET desc == [addr |-> DescAddr(t, calls[t] + 1),
                    a1 |-> a1, o1 |-> o1, a2 |-> a2, o2 |-> o2, n |-> n]
           dptr == TaggedPointer(desc.addr, 1).ptr
       IN  \E cas \in {CompareAndSwapPointer(mem, desc.a2, desc.o2, dptr)} :
              /\ mem' = cas.mem
              /\ d' = [d EXCEPT ![t] = IF cas.ok THEN desc ELSE NoDesc]
              /\ calls' = [calls EXCEPT ![t] = @ + 1]
              /\ pc' = [pc EXCEPT ![t] = IF cas.ok THEN "read" ELSE "done"]
              /\ ret' = [ret EXCEPT ![t] = FALSE]
              /\ obs' = [obs EXCEPT ![t] =
                           IF cas.ok THEN NoObs ELSE Returned("aborted")]
    /\ UNCHANGED lastN

\* The argument thread t passes to RDCSSComplete: its own descriptor.
CompleteArg(t) == d[t].addr

\* Mutant: the completion goes to the commit whatever the control word holds.
RDCSSCompleteReadAlways(t) ==
    /\ pc[t] = "read"
    /\ LET dptr   == CompleteArg(t)
           tgdptr == TaggedPointer(dptr, 1).ptr
           desc   == Deref(Untag(dptr))
           v      == mem[desc.a1]
       IN  /\ pc' = [pc EXCEPT ![t] = "commit"]
           /\ obs' = [obs EXCEPT ![t].seen = v,
                                 ![t].act = (mem[desc.a2] = tgdptr)]
    /\ UNCHANGED <<mem, d, calls, ret, lastN, pre>>

\* Mutant: the completion waits until the control word holds o1.
RDCSSCompleteReadWait(t) ==
    /\ pc[t] = "read"
    /\ LET dptr   == CompleteArg(t)
           tgdptr == TaggedPointer(dptr, 1).ptr
           desc   == Deref(Untag(dptr))
           v      == mem[desc.a1]
       IN  /\ v = desc.o1
           /\ pc' = [pc EXCEPT ![t] = "commit"]
           /\ obs' = [obs EXCEPT ![t].seen = v,
                                 ![t].act = (mem[desc.a2] = tgdptr)]
    /\ UNCHANGED <<mem, d, calls, ret, lastN, pre>>

\* RDCSSComplete, the control read: *desc.a1 == desc.o1.
RDCSSCompleteRead(t) ==
    /\ pc[t] = "read"
    /\ LET dptr   == CompleteArg(t)
           tgdptr == TaggedPointer(dptr, 1).ptr
           desc   == Deref(Untag(dptr))
           v      == mem[desc.a1]
       IN  /\ pc' = [pc EXCEPT ![t] = IF v = desc.o1 THEN "commit" ELSE "rollback"]
           /\ obs' = [obs EXCEPT ![t].seen = v,
                                 ![t].act = (mem[desc.a2] = tgdptr)]
    /\ UNCHANGED <<mem, d, calls, ret, lastN, pre>>

\* Mutant: the commit CAS is made on the control word.
RDCSSCompleteSwapControl(t) ==
    /\ pc[t] = "commit"
    /\ LET dptr   == CompleteArg(t)
           tgdptr == TaggedPointer(dptr, 1).ptr
           desc   == Deref(Untag(dptr))
       IN  \E cas \in {CompareAndSwapPointer(mem, desc.a1, desc.o1, desc.n)} :
              /\ mem' = cas.mem
              /\ pc' = [pc EXCEPT ![t] = IF cas.ok THEN "done" ELSE "rollback"]
              /\ ret' = [ret EXCEPT ![t] = cas.ok]
              /\ d' = [d EXCEPT ![t] = IF cas.ok THEN NoDesc ELSE @]
              /\ obs' = [obs EXCEPT ![t] =
                           IF cas.ok THEN Returned("committed") ELSE @]
              /\ lastN' = IF cas.ok THEN desc.n ELSE lastN
    /\ UNCHANGED <<calls, pre>>

\* RDCSSComplete, the commit: CAS the data word from the tagged descriptor to
\* n; return true when it succeeds, else fall through to the restoration.
RDCSSCompleteSwap(t) ==
    /\ pc[t] = "commit"
    /\ LET dptr   == CompleteArg(t)
           tgdptr == TaggedPointer(dptr, 1).ptr
           desc   == Deref(Untag(dptr))
       IN  \E cas \in {CompareAndSwapPointer(mem, desc.a2, tgdptr, desc.n)} :
              /\ mem' = cas.mem
              /\ pc' = [pc EXCEPT ![t] = IF cas.ok THEN "done" ELSE "rollback"]
              /\ ret' = [ret EXCEPT ![t] = cas.ok]
              /\ d' = [d EXCEPT ![t] = IF cas.ok THEN NoDesc ELSE @]
              /\ obs' = [obs EXCEPT ![t] =
                           IF cas.ok THEN Returned("committed") ELSE @]
              /\ lastN' = IF cas.ok THEN desc.n ELSE lastN
    /\ UNCHANGED <<calls, pre>>

\* Mutant: the restoration writes n where o2 belongs.
RDCSSCompleteRestoreToN(t) ==
    /\ pc[t] = "rollback"
    /\ LET dptr   == CompleteArg(t)
           tgdptr == TaggedPointer(dptr, 1).ptr
           desc   == Deref(Untag(dptr))
       IN  \E cas \in {CompareAndSwapPointer(mem, desc.a2, tgdptr, desc.n)} :
              /\ mem' = cas.mem
              /\ obs' = [obs EXCEPT ![t] =
                           Returned(IF cas.ok THEN "rolledback" ELSE "lost")]
    /\ pc' = [pc EXCEPT ![t] = "done"]
    /\ ret' = [ret EXCEPT ![t] = FALSE]
    /\ d' = [d EXCEPT ![t] = NoDesc]
    /\ UNCHANGED <<calls, lastN, pre>>

\* Mutant: the restoration stores o2 whatever the data word holds.
RDCSSCompleteRestoreStore(t) ==
    /\ pc[t] = "rollback"
    /\ LET dptr   == CompleteArg(t)
           tgdptr == TaggedPointer(dptr, 1).ptr
           desc   == Deref(Untag(dptr))
       IN  /\ mem' = [mem EXCEPT ![desc.a2] = desc.o2]
           /\ obs' = [obs EXCEPT ![t] =
                        Returned(IF mem[desc.a2] = tgdptr THEN "rolledback" ELSE "lost")]
    /\ pc' = [pc EXCEPT ![t] = "done"]
    /\ ret' = [ret EXCEPT ![t] = FALSE]
    /\ d' = [d EXCEPT ![t] = NoDesc]
    /\ UNCHANGED <<calls, lastN, pre>>

\* Mutant: the call returns false without the restoration CAS.
RDCSSCompleteRestoreSkip(t) ==
    /\ pc[t] = "rollback"
    /\ pc' = [pc EXCEPT ![t] = "done"]
    /\ ret' = [ret EXCEPT ![t] = FALSE]
    /\ d' = [d EXCEPT ![t] = NoDesc]
    /\ obs' = [obs EXCEPT ![t] = Returned("lost")]
    /\ UNCHANGED <<mem, calls, lastN, pre>>

\* RDCSSComplete, the restoration: CAS the data word from the tagged
\* descriptor back to o2 (a failure is only logged) and return false.
RDCSSCompleteRestore(t) ==
    /\ pc[t] = "rollback"
    /\ LET dptr   == CompleteArg(t)
           tgdptr == TaggedPointer(dptr, 1).ptr
           desc   == Deref(Untag(dptr))
       IN  \E cas \in {CompareAndSwapPointer(mem, desc.a2, tgdptr, desc.o2)} :
              /\ mem' = cas.mem
              /\ obs' = [obs EXCEPT ![t] =
                           Returned(IF cas.ok THEN "rolledback" ELSE "lost")]
    /\ pc' = [pc EXCEPT ![t] = "done"]
    /\ ret' = [ret EXCEPT ![t] = FALSE]
    /\ d' = [d EXCEPT ![t] = NoDesc]
    /\ UNCHANGED <<calls, lastN, pre>>

\* Another operation of the program stores v in the control word (a cursor
\* advanced, a counter changed).
WriteControl(v) ==
    /\ mem[A1] # v
    /\ mem' = [mem EXCEPT ![A1] = v]
    /\ obs' = [t \in Threads |->
                 IF pc[t] \in {"read", "commit", "rollback"} /\ v # d[t].o1
                 THEN [obs[t] EXCEPT !.chg = TRUE] ELSE obs[t]]
    /\ UNCHANGED <<pc, d, calls, ret, lastN, pre>>

\* A thread that finds a tagged descriptor in the data word calls
\* RDCSSComplete on it (helping); u is the thread that installed it.
HelpComplete(t) ==
    /\ pc[t] \in {"idle", "done"}
    /\ calls[t] < MaxCalls
    /\ IsRDCSSDescriptor(mem[A2])
    /\ \E u \in Threads \ {t} :
          /\ InFlightDesc(u)
          /\ mem[A2] = TaggedPointer(d[u].addr, 1).ptr
          /\ d' = [d EXCEPT ![t] = d[u]]
    /\ calls' = [calls EXCEPT ![t] = @ + 1]
    /\ pc' = [pc EXCEPT ![t] = "read"]
    /\ ret' = [ret EXCEPT ![t] = FALSE]
    /\ obs' = [obs EXCEPT ![t] = NoObs]
    /\ UNCHANGED <<mem, lastN, pre, hs>>

\* hs after thread t's CAS took its descriptor out of the data word.
Resolved(t, how) == [hs EXCEPT !.how[d[t].addr] = how, !.by[d[t].addr] = t]

\* ------------------------------ specification: concurrent RDCSS on one word

Init ==
    /\ uintptrBits \in {32, 64}
    /\ tg = [pc |-> "start", p |-> 0, t |-> 0, tptr |-> 0, err |-> "nil",
             tag |-> 0, uptr |-> 0, has |-> FALSE, isd |-> FALSE]
    /\ RdcssIdle
    /\ mem = [a \in MemAddrs |-> IF a = A1 THEN InitCtl ELSE InitData]
    /\ lastN = InitData
    /\ pre = NoPre
    /\ SlotsIdle
    /\ UtilIdle

Next ==
    \/ \E t \in Threads, o1 \in CtlVals, o2 \in DataVals, n \in DataVals :
          RDCSS(t, A1, o1, A2, o2, n) /\ UNCHANGED <<uintptrBits, tg, pre, hs, slotVars, utilVars>>
    \/ \E t \in Threads : RDCSSCompleteRead(t) /\ UNCHANGED <<uintptrBits, tg, hs, slotVars, utilVars>>
    \/ \E t \in Threads : RDCSSCompleteSwap(t) /\ UNCHANGED <<uintptrBits, tg, hs, slotVars, utilVars>>
    \/ \E t \in Threads : RDCSSCompleteRestore(t) /\ UNCHANGED <<uintptrBits, tg, hs, slotVars, utilVars>>
    \/ \E v \in CtlVals : WriteControl(v) /\ UNCHANGED <<uintptrBits, tg, hs, slotVars, utilVars>>

Spec == Init /\ [][Next]_vars

\* -------------------- specification: RDCSS with threads that help complete
\* Thread 1 reads the data word and calls RDCSS with the value it found as
\* o2, the initial control value as o1 and, as n, a user object for an empty
\* slot and nil for an occupied one; the other threads read the data word
\* and, when they find a tagged descriptor, run RDCSSComplete on it.  The
\* control word is written as in Spec.  hs follows every descriptor from its install to the CAS that takes
\* it out of the data word.

HelpInit == Init

HelpNext ==
    \/ \E t \in {1}, n \in IF mem[A2] = nil THEN UserVals ELSE {nil} :
          /\ ~IsRDCSSDescriptor(mem[A2])
          /\ RDCSS(t, A1, InitCtl, A2, mem[A2], n)
          /\ hs' = IF pc'[t] = "read"
                   THEN [hs EXCEPT !.how[d'[t].addr] = "active"]
                   ELSE hs
          /\ UNCHANGED <<uintptrBits, tg, pre, slotVars, utilVars>>
    \/ \E t \in Threads \ {1} :
          HelpComplete(t) /\ UNCHANGED <<uintptrBits, tg, slotVars, utilVars>>
    \/ \E t \in Threads : RDCSSCompleteRead(t) /\ UNCHANGED <<uintptrBits, tg, hs, slotVars, utilVars>>
    \/ \E t \in Threads :
          /\ RDCSSCompleteSwap(t)
          /\ hs' = IF mem' # mem THEN Resolved(t, "committed") ELSE hs
          /\ UNCHANGED <<uintptrBits, tg, slotVars, utilVars>>
    \/ \E t \in Threads :
          /\ RDCSSCompleteRestore(t)
          /\ hs' = IF mem' # mem THEN Resolved(t, "rolledback") ELSE hs
          /\ UNCHANGED <<uintptrBits, tg, slotVars, utilVars>>
    \/ \E v \in CtlVals : WriteControl(v) /\ UNCHANGED <<uintptrBits, tg, hs, slotVars, utilVars>>

SpecHelp == HelpInit /\ [][HelpNext]_vars

\* ------------------------------------- specification: RDCSS run by one thread
\* One thread, nothing else touching the two words; every call's arguments and
\* the two words as they were when it began are kept in pre.

SoloInit ==
    /\ uintptrBits \in {32, 64}
    /\ tg = [pc |-> "start", p |-> 0, t |-> 0, tptr |-> 0, err |-> "nil",
             tag |-> 0, uptr |-> 0, has |-> FALSE, isd |-> FALSE]
    /\ RdcssIdle
    /\ \E v1 \in CtlVals, v2 \in DataVals :
          /\ mem = [a \in MemAddrs |->
                      IF a = A1 THEN v1 ELSE IF a = A2 THEN v2 ELSE nil]
          /\ lastN = v2
    /\ pre = NoPre
    /\ SlotsIdle
    /\ UtilIdle

SoloNext ==
    \/ \E o1 \in CtlVals, o2 \in DataVals, n \in DataVals :
          /\ RDCSS(1, A1, o1, A2, o2, n)
          /\ pre' = [v1 |-> mem[A1], v2 |-> mem[A2], o1 |-> o1, o2 |-> o2,
                      n |-> [pre.n EXCEPT ![1] = n]]
          /\ UNCHANGED <<uintptrBits, tg, hs, slotVars, utilVars>>
    \/ RDCSSCompleteRead(1) /\ UNCHANGED <<uintptrBits, tg, hs, slotVars, utilVars>>
    \/ RDCSSCompleteSwap(1) /\ UNCHANGED <<uintptrBits, tg, hs, slotVars, utilVars>>
    \/ RDCSSCompleteRestore(1) /\ UNCHANGED <<uintptrBits, tg, hs, slotVars, utilVars>>

SpecSolo == SoloInit /\ [][SoloNext]_vars

\* --------------------------- specification: threads racing the same RDCSS
\* Every thread calls RDCSS with the same control and data address and the
\* same expected values; o2 is what the data word holds at the start and the
\* new values differ from it.  Nothing else writes the two words.

RaceInit ==
    /\ uintptrBits \in {32, 64}
    /\ tg = [pc |-> "start", p |-> 0, t |-> 0, tptr |-> 0, err |-> "nil",
             tag |-> 0, uptr |-> 0, has |-> FALSE, isd |-> FALSE]
    /\ RdcssIdle
    /\ \E v1 \in CtlVals, v2 \in DataVals, o1 \in CtlVals :
          /\ mem = [a \in MemAddrs |->
                      IF a = A1 THEN v1 ELSE IF a = A2 THEN v2 ELSE nil]
          /\ lastN = v2
          /\ pre = [NoPre EXCEPT !.v1 = v1, !.v2 = v2, !.o1 = o1, !.o2 = v2]
    /\ SlotsIdle
    /\ UtilIdle

RaceNext ==
    \/ \E t \in Threads, n \in DataVals \ {pre.o2} :
          /\ RDCSS(t, A1, pre.o1, A2, pre.o2, n)
          /\ pre' = [pre EXCEPT !.n[t] = n]
          /\ UNCHANGED <<uintptrBits, tg, hs, slotVars, utilVars>>
    \/ \E t \in Threads : RDCSSCompleteRead(t) /\ UNCHANGED <<uintptrBits, tg, hs, slotVars, utilVars>>
    \/ \E t \in Threads : RDCSSCompleteSwap(t) /\ UNCHANGED <<uintptrBits, tg, hs, slotVars, utilVars>>
    \/ \E t \in Threads : RDCSSCompleteRestore(t) /\ UNCHANGED <<uintptrBits, tg, hs, slotVars, utilVars>>

SpecRace == RaceInit /\ [][RaceNext]_vars

\* ------------------------- specification: threads claiming slots of a slice
\* The slice starts with every slot nil; the threads call SetSliceSlot with
\* the addresses of user objects.

SlotsInit ==
    /\ uintptrBits \in {32, 64}
    /\ tg = [pc |-> "start", p |-> 0, t |-> 0, tptr |-> 0, err |-> "nil",
             tag |-> 0, uptr |-> 0, has |-> FALSE, isd |-> FALSE]
    /\ RdcssIdle
    /\ mem = [a \in MemAddrs |-> IF a = A1 THEN InitCtl ELSE nil]
    /\ lastN = InitData
    /\ pre = NoPre
    /\ SlotsIdle
    /\ UtilIdle

SlotsNext ==
    \E t \in Threads, index \in SlotIndexes, v \in UserVals :
        /\ CallSetSliceSlot(t, index, v)
        /\ UNCHANGED <<uintptrBits, tg, pc, d, calls, ret, obs, lastN, pre, hs, cs, utilVars>>

SpecSlots == SlotsInit /\ [][SlotsNext]_vars

\* ------------------------------------ specification: CASSliceSlot on a slice
\* The slice starts with every slot nil; CASSliceSlot is called with nil or
\* the address of a user object as data and as target.

CasInit == SlotsInit

CasNext ==
    \E index \in SlotIndexes, data \in DataVals, target \in DataVals :
        /\ CallCASSliceSlot(index, data, target)
        /\ UNCHANGED <<uintptrBits, tg, pc, d, calls, ret, obs, lastN, pre, hs, utilVars>>

SpecCas == CasInit /\ [][CasNext]_vars

\* ------------------------------------- specification: the tagging functions
\* A driver in the shape of TestPointerTagging: tag a pointer, read the tag
\* back, untag the tagged pointer, ask whether the result has a tag, ask
\* whether the tagged pointer is a descriptor.

TagInit ==
    /\ uintptrBits \in {32, 64}
    /\ \E p \in Pointers, t \in 0 .. MaxTagIn :
          tg = [pc |-> "start", p |-> p, t |-> t, tptr |-> 0, err |-> "nil",
                tag |-> 0, uptr |-> 0, has |-> FALSE, isd |-> FALSE]
    /\ RdcssIdle
    /\ mem = [a \in MemAddrs |-> nil]
    /\ lastN = InitData
    /\ pre = NoPre
    /\ SlotsIdle
    /\ UtilIdle

CallTaggedPointer ==
    /\ tg.pc = "start"
    /\ LET r == TaggedPointer(tg.p, tg.t) IN
          tg' = [tg EXCEPT !.pc = IF r.panicked THEN "panic" ELSE "tagged",
                           !.tptr = r.ptr, !.err = r.err]
    /\ UNCHANGED <<uintptrBits, rdcssVars, slotVars, utilVars>>

CallGetTag ==
    /\ tg.pc = "tagged"
    /\ tg' = [tg EXCEPT !.pc = "gottag", !.tag = GetTag(tg.tptr)]
    /\ UNCHANGED <<uintptrBits, rdcssVars, slotVars, utilVars>>

CallUntag ==
    /\ tg.pc = "gottag"
    /\ tg' = [tg EXCEPT !.pc = "untagged", !.uptr = Untag(tg.tptr)]
    /\ UNCHANGED <<uintptrBits, rdcssVars, slotVars, utilVars>>

CallHasTag ==
    /\ tg.pc = "untagged"
    /\ tg' = [tg EXCEPT !.pc = "end", !.has = HasTag(tg.uptr)]
    /\ UNCHANGED <<uintptrBits, rdcssVars, slotVars, utilVars>>

CallIsRDCSSDescriptor ==
    /\ tg.pc = "end"
    /\ tg' = [tg EXCEPT !.pc = "checked", !.isd = IsRDCSSDescriptor(tg.tptr)]
    /\ UNCHANGED <<uintptrBits, rdcssVars, slotVars, utilVars>>

TagNext ==
    \/ CallTaggedPointer
    \/ CallGetTag
    \/ CallUntag
    \/ CallHasTag
    \/ CallIsRDCSSDescriptor

SpecTag == TagInit /\ [][TagNext]_vars

\* ------------------------------------------------------ specification: roundP2

RoundInit ==
    /\ uintptrBits \in {32, 64}
    /\ tg = [pc |-> "start", p |-> 0, t |-> 0, tptr |-> 0, err |-> "nil",
             tag |-> 0, uptr |-> 0, has |-> FALSE, isd |-> FALSE]
    /\ RdcssIdle
    /\ mem = [a \in MemAddrs |-> nil]
    /\ lastN = InitData
    /\ pre = NoPre
    /\ SlotsIdle
    /\ \E v \in RoundInputs : rp = [NoRp EXCEPT !.v = v]

RoundNext == CallRoundP2

SpecRound == RoundInit /\ [][RoundNext]_vars

\* ------------------------------------------------------------------ claims

\* A thread is inside RDCSSComplete with its descriptor installed.
InFlight(t) == pc[t] \in {"read", "commit", "rollback"}

\* No RDCSS call is in progress.
Quiescent == \A t \in Threads : ~InFlight(t)

\* C1: when the threads race RDCSS with the same addresses and the same
\* expected values, *a1 = o1 and *a2 = o2 at the start, the control word never
\* written and every new value different from o2, then once each has made its
\* one call and returned, exactly one call returned true and the data word
\* holds that call's new value.
RaceHasOneWinner ==
    (pre.o1 = pre.v1 /\ \A t \in Threads : pc[t] = "done" /\ calls[t] = 1)
        => \E t \in Threads :
              /\ ret[t]
              /\ \A u \in Threads \ {t} : ~ret[u]
              /\ mem[A2] = pre.n[t]

RaceHasOneWinnerWitness ==
    /\ pre.o1 = pre.v1
    /\ \A t \in Threads : pc[t] = "done" /\ calls[t] = 1
    /\ \E t \in Threads : ret[t] /\ obs[t].fate = "committed"
    /\ \E t \in Threads : ~ret[t] /\ obs[t].fate = "aborted"

\* C2, as claimed: a call during whose installed window the control word was
\* set to a value other than o1 returns false with the data word back at o2.
ControlChangeForcesRollback ==
    [][\A t \in Threads :
          (InFlight(t) /\ pc'[t] = "done" /\ obs[t].chg)
              => (ret'[t] = FALSE /\ mem'[d[t].a2] = d[t].o2)]_vars

\* C2, amended: a call whose completion reads a value other than o1 at the
\* control address never attempts the commit; it returns false, its
\* descriptor is taken out by the restoration and the data word holds o2.
RollbackWhenControlReadDiffers ==
    [][\A t \in Threads :
          (pc[t] \in {"commit", "rollback"} /\ obs[t].seen # d[t].o1)
              => /\ pc[t] = "rollback"
                 /\ pc'[t] \in {"rollback", "done"}
                 /\ pc'[t] = "done" =>
                       /\ ret'[t] = FALSE
                       /\ mem'[d[t].a2] = d[t].o2
                       /\ obs'[t].fate = "rolledback"]_vars

RollbackWitness ==
    \E t \in Threads :
        /\ pc[t] = "done" /\ ~ret[t] /\ obs[t].fate = "rolledback"
        /\ ~IsRDCSSDescriptor(mem[A2])

\* C3: run alone, RDCSS(a1, o1, a2, o2, n) returns true and leaves *a2 = n
\* exactly when *a2 = o2 and *a1 = o1 held at the call; otherwise it returns
\* false and leaves *a2 as it was.  The control word is as it was either way.
SoloMatchesReference ==
    pc[1] = "done" =>
        LET both == (pre.v2 = pre.o2 /\ pre.v1 = pre.o1) IN
            /\ ret[1] = both
            /\ mem[A2] = (IF both THEN pre.n[1] ELSE pre.v2)
            /\ mem[A1] = pre.v1

SoloCommitWitness ==
    /\ pc[1] = "done" /\ ret[1]
    /\ pre.n[1] # pre.v2 /\ mem[A2] = pre.n[1]

\* C4: whenever no RDCSS call is in progress the data word carries no tag and
\* holds the initial value or the new value of a call that returned true (the
\* latest one); and a tagged descriptor address is in the data word only while
\* the call that allocated it is between its install and its commit or
\* rollback.
NoDescriptorOutlivesCall ==
    /\ Quiescent => (~IsRDCSSDescriptor(mem[A2]) /\ mem[A2] = lastN)
    /\ IsRDCSSDescriptor(mem[A2]) =>
          \E t \in Threads :
              /\ InFlight(t)
              /\ mem[A2] = TaggedPointer(d[t].addr, 1).ptr
              /\ d[t].addr = DescAddr(t, calls[t])
    /\ \A t \in Threads : InFlight(t) \/ d[t] = NoDesc

QuiescentAfterCommitWitness ==
    /\ Quiescent
    /\ \E t \in Threads : ret[t] /\ obs[t].fate = "committed"
    /\ \E t \in Threads : obs[t].fate = "rolledback"
    /\ mem[A2] # InitData

\* C5: a thread whose RDCSS call finds another call's tagged descriptor in the
\* data word completes that descriptor before it goes on: it never returns
\* leaving the descriptor it found in place.
HelpsBeforeProceeding ==
    [][\A t \in Threads :
          (~InFlight(t) /\ calls'[t] = calls[t] + 1 /\ IsRDCSSDescriptor(mem[A2]))
              => mem'[A2] # mem[A2]]_vars

\* C6: the committed calls on the data word form one chain: the o2 of each
\* committed call is the value the previous committed call installed (the
\* initial value for the first), and its completion read *a1 = o1 while its
\* descriptor was in the data word.
CommitsFormChain ==
    [][\A t \in Threads :
          (pc[t] = "commit" /\ obs'[t].fate = "committed")
              => /\ d[t].o2 = lastN
                 /\ mem[d[t].a2] = TaggedPointer(d[t].addr, 1).ptr
                 /\ mem'[d[t].a2] = d[t].n
                 /\ lastN' = d[t].n
                 /\ obs[t].seen = d[t].o1
                 /\ obs[t].act]_vars

TwoCommitsWitness ==
    \E t, u \in Threads :
        /\ t # u
        /\ obs[t].fate = "committed" /\ obs[u].fate = "committed"
        /\ mem[A2] # InitData

\* The address of the slot the latest SetSliceSlot call named.
LastSlot == OffsetSliceSlot(nodes, sl.idx, archPTRSIZE)

\* C7: SetSliceSlot on a slot that holds a non-nil value returns false and
\* leaves that slot and every other word as they were; on a nil slot it
\* returns true and the slot then holds the given value, the other words as
\* they were.
SetSliceSlotOnlyIfNil ==
    sl.called =>
        IF sl.before[LastSlot] # nil
        THEN ~sl.ok /\ mem = sl.before
        ELSE sl.ok /\ mem = [sl.before EXCEPT ![LastSlot] = sl.val]

OccupiedSlotWitness ==
    /\ sl.called /\ ~sl.ok
    /\ sl.before[LastSlot] # nil /\ sl.before[LastSlot] # sl.val
    /\ mem[LastSlot] = sl.before[LastSlot]

\* C8: threads claiming the slots of an initially empty slice: no slot is
\* claimed by two successful calls, a claimed slot holds its claimer's value,
\* and once every slot has been tried exactly NumSlots calls have returned
\* true, whatever the number of calls made.
SlotsClaimedOnce ==
    /\ \A i \in SlotIndexes :
          /\ sl.wins[i] <= 1
          /\ mem[OffsetSliceSlot(nodes, i, archPTRSIZE)] = sl.owner[i]
          /\ sl.wins[i] = 1 <=> sl.owner[i] # nil
    /\ sl.att = SlotIndexes =>
          /\ sl.ntrue = NumSlots
          /\ \A i \in SlotIndexes : sl.wins[i] = 1

AllSlotsClaimedWitness ==
    /\ sl.att = SlotIndexes
    /\ sl.ntrue = NumSlots /\ sl.nfalse > 0
    /\ \A t \in Threads : tries[t] > 0

\* The address handed to TaggedPointer has its tag bits clear.
Aligned(a) == a % (archMAXTAG + 1) = 0

\* C9: for every tag t in [0, archMAXTAG] and every address a whose
\* low-order tag bits are zero, Untag(TaggedPointer(a, t)) = a and
\* GetTag(TaggedPointer(a, t)) = t.
TagRoundTrip ==
    (tg.pc \in {"untagged", "end"} /\ Aligned(tg.p) /\ tg.t <= archMAXTAG)
        => (tg.uptr = tg.p /\ tg.tag = tg.t)

\* C10: HasTag(Untag(p)) is false for every pointer value p.
UntagClearsTag == tg.pc = "end" => tg.has = FALSE

\* C11: TaggedPointer(a, t) with t > archMAXTAG panics with EPTRINVALT and
\* hands back no pointer; with t <= archMAXTAG it does not panic, its error is
\* nil and its result is a above the tag bits and a | t within them.
TaggedPointerRejectsWideTag ==
    tg.pc # "start" =>
        IF tg.t > archMAXTAG
        THEN tg.pc = "panic" /\ tg.err = "EPTRINVALT" /\ tg.tptr = 0
        ELSE /\ tg.pc # "panic"
             /\ tg.err = "nil"
             /\ tg.tptr \div (archMAXTAG + 1) = tg.p \div (archMAXTAG + 1)
             /\ tg.tptr % (archMAXTAG + 1) = BitOr(tg.p % (archMAXTAG + 1), tg.t)

WideTagPanicWitness ==
    /\ tg.pc = "panic" /\ tg.err = "EPTRINVALT"
    /\ tg.t = archMAXTAG + 1 /\ tg.p # 0

\* v as a uint64 is a power of two.
IsPowerOfTwo(v) == Cardinality(v) = 1

\* The smallest power of two above v, modulo 2^64: bit 0 for v = 0, else the
\* bit above v's highest one-bit, and 0 when that is bit 64.
NextPowerOfTwo(v) ==
    IF v = {} THEN {0}
    ELSE LET h == CHOOSE m \in v : \A x \in v : x <= m
         IN  IF h + 1 < Uint64Bits THEN {h + 1} ELSE {}

\* C12: roundP2(v) is v when v is a power of two and otherwise the smallest
\* power of two greater than v (taken modulo 2^64), for every uint64 v, 0 and
\* the values above 2^63 included.
RoundP2NextPowerOfTwo ==
    rp.pc = "done" =>
        rp.r = (IF IsPowerOfTwo(rp.v) THEN rp.v ELSE NextPowerOfTwo(rp.v))

\* The address of the slot the latest CASSliceSlot call named.
LastCasSlot == OffsetSliceSlot(nodes, cs.idx, archPTRSIZE)

\* C13: CASSliceSlot(addr, data, target, index, ptrsize) replaces the slot at
\* index with target and returns true when the slot holds data, and otherwise
\* returns false with the slot as it was; no other word changes.
CASSliceSlotDataIsExpected ==
    cs.n > 0 =>
        IF cs.before[LastCasSlot] = cs.data
        THEN cs.ok /\ mem = [cs.before EXCEPT ![LastCasSlot] = cs.target]
        ELSE ~cs.ok /\ mem = cs.before

\* The next step of thread t's call, once its descriptor is installed.
OwnStep(t) ==
    /\ RDCSSCompleteRead(t) \/ RDCSSCompleteSwap(t) \/ RDCSSCompleteRestore(t)
    /\ UNCHANGED <<uintptrBits, tg, hs, slotVars, utilVars>>

\* How far a call has come: the install CAS, the control read, the commit
\* CAS, the restoration CAS.
StepRank(p) ==
    CASE p = "read" -> 1
      [] p = "commit" -> 2
      [] p = "rollback" -> 3
      [] OTHER -> 4

\* C14: an RDCSS call ends after at most four steps of its own (the install
\* CAS, the control read, the commit CAS, the restoration CAS), each taken at
\* most once and in this order, and whatever the other threads have done or
\* left undone the next step of a call in progress can be taken (the threads
\* run the same code: this part is stated for thread 1).
RDCSSStepsBounded ==
    /\ [](InFlight(1) => ENABLED OwnStep(1))
    /\ [][\A t \in Threads :
             /\ (InFlight(t) /\ pc'[t] # pc[t]) => StepRank(pc'[t]) > StepRank(pc[t])
             /\ (InFlight(t) /\ pc'[t] = pc[t]) => (d'[t] = d[t] /\ obs'[t].seen = obs[t].seen)
             /\ (~InFlight(t) /\ InFlight(t)') => (pc'[t] = "read" /\ calls'[t] = calls[t] + 1)
             /\ (~InFlight(t) /\ calls'[t] # calls[t]) => pc'[t] \in {"read", "done"}]_vars

ReturnsBesideStalledCallWitness ==
    \E u \in Threads \ {1} :
        /\ pc[1] = "rollback" /\ mem[A1] = d[1].o1
        /\ pc[u] = "done" /\ obs[u].fate = "aborted" /\ calls[u] = MaxCalls

\* C15: an RDCSS call goes on to its completion only when its install CAS
\* found o2 in the data word; a call whose install CAS fails returns false in
\* that same step, with no read of the control word, no completion step and
\* every shared word as it was.
InstallFailureAborts ==
    [][\A t \in Threads :
          (~InFlight(t) /\ calls'[t] = calls[t] + 1)
              => IF pc'[t] = "read"
                 THEN /\ mem[A2] = d'[t].o2
                      /\ mem' = [mem EXCEPT ![A2] = TaggedPointer(d'[t].addr, 1).ptr]
                 ELSE /\ pc'[t] = "done"
                      /\ mem' = mem
                      /\ ret'[t] = FALSE
                      /\ d'[t] = NoDesc
                      /\ obs'[t] = Returned("aborted")]_vars

AbortedOnDescriptorWitness ==
    \E t, u \in Threads :
        /\ pc[t] = "done" /\ obs[t].fate = "aborted" /\ ~ret[t]
        /\ InFlight(u) /\ mem[A2] = TaggedPointer(d[u].addr, 1).ptr

\* Thread t is inside RDCSSComplete on the descriptor at address a.
Completing(t, a) == InFlight(t) /\ d[t].addr = a

\* C16: of the CASes that the threads running RDCSSComplete on one descriptor
\* make from its tagged address, exactly one succeeds: the descriptor leaves
\* the data word once, to n (committed) or to o2 (rolled back), it is gone
\* when the last of these threads returns, and a restoration CAS fails only
\* after another thread's CAS has committed or rolled back that descriptor.
ResolvedExactlyOnce ==
    /\ [](\A a \in DescAddrs :
            /\ hs.how[a] = "active" <=> mem[A2] = TaggedPointer(a, 1).ptr
            /\ hs.how[a] = "active" => \E t \in Threads : Completing(t, a)
            /\ hs.how[a] = "none" => \A t \in Threads : ~Completing(t, a))
    /\ [][\A t \in Threads :
             LET a == d[t].addr IN
             /\ (pc[t] \in {"commit", "rollback"} /\ pc'[t] # pc[t] /\ mem' # mem)
                   => /\ hs.how[a] = "active" /\ hs.by[a] = 0
                      /\ hs'.by[a] = t
                      /\ mem' = [mem EXCEPT ![d[t].a2] =
                                    IF hs'.how[a] = "committed" THEN d[t].n ELSE d[t].o2]
                      /\ hs'.how[a] = (IF pc[t] = "commit" THEN "committed" ELSE "rolledback")
             /\ (pc[t] = "rollback" /\ pc'[t] = "done" /\ mem' = mem)
                   => /\ hs.how[a] \in {"committed", "rolledback"}
                      /\ hs.by[a] \in Threads \ {t}]_vars
    /\ [][\A a \in DescAddrs :
             hs.how[a] \in {"committed", "rolledback"} => UNCHANGED <<hs.how[a], hs.by[a]>>]_vars

HelperResolvesFirstWitness ==
    \E t, u \in Threads :
        /\ t # u
        /\ pc[t] = "done" /\ obs[t].fate = "lost"
        /\ hs.how[DescAddr(t, calls[t])] = "rolledback"
        /\ hs.by[DescAddr(t, calls[t])] = u

\* C18: when the RDCSS call that installed a descriptor returns, it returns
\* true if the descriptor was committed (n written to the data word by the
\* installing thread or by a thread that ran RDCSSComplete on it) and false
\* only if it was not.
ReturnMatchesFate ==
    [][\A t \in Threads :
          (InFlight(t) /\ pc'[t] = "done" /\ d[t].addr = DescAddr(t, calls[t]))
              => (ret'[t] <=> hs'.how[d[t].addr] = "committed")]_vars

\* C17: IsRDCSSDescriptor(p) is true exactly when the tag in the low-order
\* bits of p is 0x1; a pointer with another tag (2, say) is no descriptor.
DescriptorIffTagOne ==
    tg.pc = "checked" => (tg.isd <=> tg.tptr % (archMAXTAG + 1) = 1)

\* C19: no step of an RDCSS call (the install CAS, the control read, the
\* commit CAS, the restoration CAS) changes the control word or any word other
\* than the data word a2, however the call ends.
OnlyDataWordWritten ==
    [][\A t \in Threads :
          (pc'[t] # pc[t] \/ calls'[t] # calls[t])
              => \A a \in MemAddrs \ {A2} : mem'[a] = mem[a]]_vars

ControlKeptAcrossCommitWitness ==
    \E t \in Threads :
        /\ pc[t] = "done" /\ obs[t].fate = "committed"
        /\ mem[A1] = InitCtl
        /\ mem[A2] = lastN /\ lastN # nil
        /\ \A a \in MemAddrs \ {A1, A2} : mem[a] = nil

====
